---- MODULE Spec2Model ----
(***************************************************************************)
(* A model of nsplitter's core (src/src/core.py): split_file, which copies *)
(* one input file into numbered fragments of at most MAX_SPLIT_SIZE bytes  *)
(* inside a split directory next to it.                                    *)
(*                                                                         *)
(* Paths and file names are sequences of one-character strings; a file's   *)
(* content is a sequence of bytes, and the i-th byte of job j's input is   *)
(* the pair <<j, i>>, so that a lost, duplicated or reordered byte shows.  *)
(* Sizes are scaled down: MAX_SPLIT_SIZE stands for 4 GiB - 64 KiB and     *)
(* MANT_DIG for the 53 significand bits of a Python float.                 *)
(***************************************************************************)
EXTENDS Integers, Sequences, FiniteSets, TLC

\* ---------------------------------------------------- constants and bounds

\* core.py:20, MAX_SPLIT_SIZE = FOUR_GB - SIXTY_FOUR_KB, scaled down.
MAX_SPLIT_SIZE == 4
\* core.py:16, THIRTY_TWO_KB, the default buf_size, scaled down: like the
\* original it divides MAX_SPLIT_SIZE.
THIRTY_TWO_KB == 2
\* Significand bits of the float that filesize / MAX_SPLIT_SIZE yields (53 in
\* CPython), scaled down with the sizes.
MANT_DIG == 4
\* Largest filesize and buf_size a single call is given.
MaxFileSize == 17
MaxBufSize == 5
\* Largest filesize of the two concurrent calls.
MaxParSize == 5
\* Calls of split_file made in a row on the same input.
MaxCalls == 2

Jobs == {1, 2}

VARIABLES
    st,     \* st[j]: the arguments, locals and file handles of call j, with its history
    disk,   \* path -> content of every regular file
    dirs,   \* the directories that exist
    prev    \* the disk as the previous call on the same input left it

vars == <<st, disk, dirs, prev>>

\* ------------------------------------------------------------ path helpers

Last(s) == s[Len(s)]

\* str.rfind for a single character, 1-based: 0 when c does not occur.
RFind(p, c) ==
    LET hits == {i \in 1..Len(p) : p[i] = c}
    IN IF hits = {} THEN 0 ELSE CHOOSE i \in hits : \A k \in hits : k <= i

\* os.path.splitext: <<root, ext>>. The extension starts at the last dot of
\* the last path component, unless only dots precede it in that component.
splitext(p) ==
    LET sepIndex == RFind(p, "/")
        dotIndex == RFind(p, ".")
    IN IF dotIndex > sepIndex
          /\ \E i \in (sepIndex + 1)..(dotIndex - 1) : p[i] # "."
       THEN <<SubSeq(p, 1, dotIndex - 1), SubSeq(p, dotIndex, Len(p))>>
       ELSE <<p, <<>> >>

\* os.path.basename
basename(p) == SubSeq(p, RFind(p, "/") + 1, Len(p))

RECURSIVE rstrip(_, _)
rstrip(s, c) ==
    IF s # <<>> /\ Last(s) = c THEN rstrip(SubSeq(s, 1, Len(s) - 1), c) ELSE s

RECURSIVE lstrip(_, _)
lstrip(s, c) ==
    IF s # <<>> /\ Head(s) = c THEN lstrip(Tail(s), c) ELSE s

\* os.path.dirname
dirname(p) ==
    LET head == SubSeq(p, 1, RFind(p, "/"))
    IN IF head # <<>> /\ \E i \in 1..Len(head) : head[i] # "/"
       THEN rstrip(head, "/")
       ELSE head

\* os.path.join of two components
join(a, b) ==
    IF b # <<>> /\ Head(b) = "/" THEN b
    ELSE IF a = <<>> \/ Last(a) = "/" THEN a \o b
    ELSE a \o <<"/">> \o b

Digit(d) == <<"0", "1", "2", "3", "4", "5", "6", "7", "8", "9">>[d + 1]

RECURSIVE Decimal(_)
Decimal(n) == IF n < 10 THEN <<Digit(n)>> ELSE Decimal(n \div 10) \o <<Digit(n % 10)>>

\* f"{split:02}": decimal, padded with zeros to at least two characters.
Format02(n) == IF n < 10 THEN <<"0">> \o Decimal(n) ELSE Decimal(n)

\* core.py:63-68, the split directory of an input path.
SplitDir(fp) ==
    LET parent_dir == dirname(fp)
        file_extension == lstrip(splitext(fp)[2], ".")
        filename_without_extension == splitext(basename(fp))[1]
    IN join(parent_dir,
            filename_without_extension \o <<".", "s", "p", "l", "i", "t", ".">>
                \o file_extension)

\* core.py:81, the path of fragment number split.
SplitPath(split_dir, split) == join(split_dir, Format02(split))

\* ------------------------------------------------------- float arithmetic

RECURSIVE Pow2(_)
Pow2(n) == IF n = 0 THEN 1 ELSE 2 * Pow2(n - 1)

\* a / b as the fraction Num / Den after scaling by 2^-e.
Num(a, e) == IF e < 0 THEN a * Pow2(-e) ELSE a
Den(b, e) == IF e < 0 THEN b ELSE b * Pow2(e)

\* The exponent e with 2^(MANT_DIG-1) <= (a/b) / 2^e < 2^MANT_DIG.
RECURSIVE ExponentOf(_, _, _)
ExponentOf(a, b, e) ==
    IF Num(a, e) < Pow2(MANT_DIG - 1) * Den(b, e) THEN ExponentOf(a, b, e - 1)
    ELSE IF Num(a, e) >= Pow2(MANT_DIG) * Den(b, e) THEN ExponentOf(a, b, e + 1)
    ELSE e

\* n / d rounded to the nearest integer, ties to even.
RoundHalfEven(n, d) ==
    LET q == n \div d
        r == n % d
    IN IF 2 * r < d THEN q
       ELSE IF 2 * r > d THEN q + 1
       ELSE IF q % 2 = 0 THEN q ELSE q + 1

\* Python's int / int: the correctly rounded float m * 2^e nearest to a / b.
TrueDiv(a, b) ==
    IF a = 0 THEN [m |-> 0, e |-> 0]
    ELSE LET e == ExponentOf(a, b, 0)
             m == RoundHalfEven(Num(a, e), Den(b, e))
         IN IF m = Pow2(MANT_DIG) THEN [m |-> Pow2(MANT_DIG - 1), e |-> e + 1]
            ELSE [m |-> m, e |-> e]

\* math.ceil of a float: exact.
Ceil(x) ==
    IF x.e >= 0 THEN x.m * Pow2(x.e)
    ELSE (x.m + Pow2(-x.e) - 1) \div Pow2(-x.e)

\* A fragment count taken as the floor plus one.
NumSplitsFloorPlusOne(filesize) == filesize \div MAX_SPLIT_SIZE + 1

\* core.py:59
NumSplits(filesize) == Ceil(TrueDiv(filesize, MAX_SPLIT_SIZE))

\* The exact ceiling of a / b, in integer arithmetic.
CeilDiv(a, b) == (a + b - 1) \div b

\* ---------------------------------------------------------------- files

Min(a, b) == IF a < b THEN a ELSE b

\* The i-th byte of job j's input file.
Byte(j, i) == <<j, i>>
Data(j, n) == [i \in 1..n |-> Byte(j, i)]
\* A byte of a file left by something else, and the byte of a hole.
Stale == <<0, 1>>
Hole == <<0, 0>>

\* An open for writing that creates the file and keeps what an existing one holds.
OpenNoTruncate(d, path) == IF path \in DOMAIN d THEN d ELSE (path :> <<>>) @@ d

\* open(path, "wb"): the file is created, or truncated to nothing.
OpenWb(d, path) == (path :> <<>>) @@ d

\* A write of chunk at offset off of a file: the rest of the file is kept and
\* a gap before off reads as zeros.
WriteAt(content, off, chunk) ==
    LET n == IF Len(content) > off + Len(chunk) THEN Len(content) ELSE off + Len(chunk)
    IN [i \in 1..n |->
          IF i > off /\ i <= off + Len(chunk) THEN chunk[i - off]
          ELSE IF i <= Len(content) THEN content[i]
          ELSE Hole]

\* infile.read(buf_size) at offset pos: at most buf_size bytes, none at the end.
Read(content, pos, buf_size) ==
    SubSeq(content, pos + 1, Min(pos + buf_size, Len(content)))

\* ---------------------------------------------------------------- state

\* A call of split_file(filepath, filesize, buf_size) about to start.
NewCall(pc, filepath, filesize, buf_size, calls) ==
    [pc |-> pc, filepath |-> filepath, filesize |-> filesize, buf_size |-> buf_size,
     filename |-> <<>>, num_splits |-> 0, split_dir |-> <<>>,
     total_bytes_written |-> 0, split |-> 0, split_path |-> <<>>, bytes_written |-> 0,
     infile_open |-> FALSE, infile_pos |-> 0, outfiles |-> {},
     \* history of the call
     infile_opens |-> 0, opened |-> <<>>, closed_at_report |-> TRUE,
     reports |-> <<>>, exc |-> "", retval |-> <<>>, calls |-> calls]

Names == {<<"a">>, <<"a", "a">>, <<"a", ".">>, <<".", "a">>, <<"a", ".", "a">>}
ParentDirs == {<<>>, <<"d", "/">>}
Paths == {d \o n : d \in ParentDirs, n \in Names}

\* What the split directory holds before the first call.
Leftovers == {"none", "dir", "fragments"}

LeftoverFiles(fp, left) ==
    IF left = "fragments"
    THEN (SplitPath(SplitDir(fp), 0) :> <<Stale, Stale>>)
         @@ (SplitPath(SplitDir(fp), 7) :> <<Stale>>)
    ELSE <<>>

LeftoverDirs(fp, left) == IF left = "none" THEN {} ELSE {SplitDir(fp)}

\* One call, with any arguments, on a file whose size is the filesize argument.
Init ==
    \E fp \in Paths, filesize \in 0..MaxFileSize, buf_size \in 1..MaxBufSize,
       left \in Leftovers :
        /\ st = [j \in Jobs |->
                   IF j = 1 THEN NewCall("start", fp, filesize, buf_size, 1)
                   ELSE NewCall("idle", <<>>, 0, THIRTY_TWO_KB, 0)]
        /\ disk = (fp :> Data(1, filesize)) @@ LeftoverFiles(fp, left)
        /\ dirs = {dirname(fp)} \cup LeftoverDirs(fp, left)
        /\ prev = disk

\* Two calls on two different input files, each with the default buf_size.
InitPar ==
    \E fp1 \in Paths, size1 \in 1..MaxParSize, size2 \in 1..MaxParSize :
      \E fp2 \in Paths \ {fp1} :
        /\ st = [j \in Jobs |->
                   NewCall("start", IF j = 1 THEN fp1 ELSE fp2,
                           IF j = 1 THEN size1 ELSE size2, THIRTY_TWO_KB, 1)]
        /\ disk = (fp1 :> Data(1, size1)) @@ (fp2 :> Data(2, size2))
        /\ dirs = {dirname(fp1), dirname(fp2)}
        /\ prev = disk

\* -------------------------------------------------------------- actions

Set(j, r) == st' = [st EXCEPT ![j] = r]

\* The exception leaves both with blocks: the handles are closed on the way out.
Raise(s, exc) == [s EXCEPT !.pc = "raised", !.exc = exc,
                           !.infile_open = FALSE, !.outfiles = {}]

\* core.py:55-74: the locals, and os.makedirs(split_dir, exist_ok=True).
Start(j) ==
    LET s == st[j]
        split_dir == SplitDir(s.filepath)
    IN /\ s.pc = "start"
       /\ Set(j, [s EXCEPT !.pc = "open", !.filename = basename(s.filepath),
                           !.num_splits = NumSplits(s.filesize),
                           !.split_dir = split_dir, !.total_bytes_written = 0])
       /\ dirs' = dirs \cup {split_dir}
       /\ UNCHANGED <<disk, prev>>

\* core.py:69, os.makedirs fails.
MakedirsFails(j) ==
    LET s == st[j]
    IN /\ s.pc = "start"
       /\ Set(j, Raise([s EXCEPT !.filename = basename(s.filepath),
                                 !.num_splits = NumSplits(s.filesize)], "OSError"))
       /\ UNCHANGED <<disk, dirs, prev>>

\* core.py:77, open(filepath, "rb").
OpenInfile(j) ==
    LET s == st[j]
    IN /\ s.pc = "open"
       /\ s.filepath \in DOMAIN disk
       /\ Set(j, [s EXCEPT !.pc = "for", !.infile_open = TRUE, !.infile_pos = 0,
                           !.infile_opens = @ + 1, !.split = 0])
       /\ UNCHANGED <<disk, dirs, prev>>

\* core.py:77, open(filepath, "rb") fails.
OpenInfileFails(j) ==
    LET s == st[j]
    IN /\ s.pc = "open"
       /\ Set(j, Raise(s, "OSError"))
       /\ UNCHANGED <<disk, dirs, prev>>

\* core.py:79-84: the next split of the for loop, and open(split_path, "wb").
OpenOutfile(j) ==
    LET s == st[j]
        split_path == SplitPath(s.split_dir, s.split)
    IN /\ s.pc = "for"
       /\ s.split < s.num_splits
       /\ s.split_dir \in dirs
       /\ disk' = OpenWb(disk, split_path)
       /\ Set(j, [s EXCEPT !.pc = "while", !.split_path = split_path,
                           !.outfiles = @ \cup {split_path},
                           !.opened = Append(@, split_path), !.bytes_written = 0])
       /\ UNCHANGED <<dirs, prev>>

\* core.py:83, open(split_path, "wb") fails.
OpenOutfileFails(j) ==
    LET s == st[j]
    IN /\ s.pc = "for"
       /\ s.split < s.num_splits
       /\ Set(j, Raise([s EXCEPT !.split_path = SplitPath(s.split_dir, s.split)],
                       "OSError"))
       /\ UNCHANGED <<disk, dirs, prev>>

\* core.py:86-97: one turn of the while loop that reads a chunk and writes it.
CopyChunk(j) ==
    LET s == st[j]
        chunk == Read(disk[s.filepath], s.infile_pos, s.buf_size)
    IN /\ s.pc = "while"
       /\ s.bytes_written < MAX_SPLIT_SIZE
       /\ chunk # <<>>
       /\ disk' = [disk EXCEPT ![s.split_path] = WriteAt(@, s.bytes_written, chunk)]
       /\ Set(j, [s EXCEPT !.infile_pos = @ + Len(chunk),
                           !.bytes_written = @ + Len(chunk),
                           !.total_bytes_written = @ + Len(chunk)])
       /\ UNCHANGED <<dirs, prev>>

\* The while loop ends and outfile is left open.
CloseOutfileLeaks(j) ==
    LET s == st[j]
        chunk == Read(disk[s.filepath], s.infile_pos, s.buf_size)
    IN /\ s.pc = "while"
       /\ ~(s.bytes_written < MAX_SPLIT_SIZE) \/ chunk = <<>>
       /\ Set(j, [s EXCEPT !.pc = "report"])
       /\ UNCHANGED <<disk, dirs, prev>>

\* core.py:86-91, 83: the while loop ends, by its condition or by the break at
\* the end of the input, and the with block closes outfile.
CloseOutfile(j) ==
    LET s == st[j]
        chunk == Read(disk[s.filepath], s.infile_pos, s.buf_size)
    IN /\ s.pc = "while"
       /\ ~(s.bytes_written < MAX_SPLIT_SIZE) \/ chunk = <<>>
       /\ Set(j, [s EXCEPT !.pc = "report",
                           !.outfiles = @ \ {s.split_path}])
       /\ UNCHANGED <<disk, dirs, prev>>

\* infile.read fails and the fragment being written is removed.
ReadFailsRollback(j) ==
    LET s == st[j]
    IN /\ s.pc = "while"
       /\ s.bytes_written < MAX_SPLIT_SIZE
       /\ Set(j, Raise(s, "OSError"))
       /\ disk' = [path \in DOMAIN disk \ {s.split_path} |-> disk[path]]
       /\ UNCHANGED <<dirs, prev>>

\* core.py:88, infile.read fails.
ReadFails(j) ==
    LET s == st[j]
    IN /\ s.pc = "while"
       /\ s.bytes_written < MAX_SPLIT_SIZE
       /\ Set(j, Raise(s, "OSError"))
       /\ UNCHANGED <<disk, dirs, prev>>

\* core.py:93, outfile.write fails: the chunk was read and is not written.
WriteFails(j) ==
    LET s == st[j]
        chunk == Read(disk[s.filepath], s.infile_pos, s.buf_size)
    IN /\ s.pc = "while"
       /\ s.bytes_written < MAX_SPLIT_SIZE
       /\ chunk # <<>>
       /\ Set(j, Raise([s EXCEPT !.infile_pos = @ + Len(chunk)], "OSError"))
       /\ UNCHANGED <<disk, dirs, prev>>

\* core.py:99-107: the progress report of the split just closed.
Report(j) ==
    LET s == st[j]
    IN /\ s.pc = "report"
       /\ Set(j, IF s.filesize = 0
                 THEN Raise(s, "ZeroDivisionError")
                 ELSE [s EXCEPT !.pc = "for", !.split = @ + 1,
                                !.closed_at_report = @ /\ s.outfiles = {},
                                !.reports = Append(@,
                                    [split |-> s.split + 1, num_splits |-> s.num_splits,
                                     total_bytes_written |-> s.total_bytes_written,
                                     filesize |-> s.filesize, filename |-> s.filename,
                                     end |-> IF s.total_bytes_written < s.filesize
                                             THEN "\\r" ELSE "\\n"])])
       /\ UNCHANGED <<disk, dirs, prev>>

\* core.py:79, 77, 113: the for loop is over, the with block closes infile and
\* split_dir is returned.
Return(j) ==
    LET s == st[j]
    IN /\ s.pc = "for"
       /\ ~(s.split < s.num_splits)
       /\ Set(j, [s EXCEPT !.pc = "returned", !.infile_open = FALSE,
                           !.retval = s.split_dir])
       /\ UNCHANGED <<disk, dirs, prev>>

\* The caller calls split_file again with the same arguments.
CallAgain(j) ==
    LET s == st[j]
    IN /\ s.pc = "returned"
       /\ s.calls < MaxCalls
       /\ Set(j, NewCall("start", s.filepath, s.filesize, s.buf_size, s.calls + 1))
       /\ prev' = disk
       /\ UNCHANGED <<disk, dirs>>

Step(j) ==
    \/ Start(j)
    \/ OpenInfile(j)
    \/ OpenOutfile(j)
    \/ CopyChunk(j)
    \/ CloseOutfile(j)
    \/ Report(j)
    \/ Return(j)

Fault(j) ==
    \/ MakedirsFails(j)
    \/ OpenInfileFails(j)
    \/ OpenOutfileFails(j)
    \/ ReadFails(j)
    \/ WriteFails(j)

Next == \E j \in Jobs : Step(j) \/ Fault(j) \/ CallAgain(j)

NextPar == \E j \in Jobs : Step(j)

\* One call at a time, with I/O failures, then the same call again.
Spec == Init /\ [][Next]_vars

\* Two calls on different inputs, their steps interleaved.
SpecPar == InitPar /\ [][NextPar]_vars

\* ------------------------------------------------------------ properties

Range(f) == {f[i] : i \in DOMAIN f}

\* The fragments call j has opened so far, by ascending index.
FragmentPaths(j) ==
    [i \in 1..Len(st[j].opened) |-> SplitPath(SplitDir(st[j].filepath), i - 1)]

\* The contents of the files at paths, concatenated in that order.
RECURSIVE Cat(_)
Cat(paths) == IF paths = <<>> THEN <<>> ELSE disk[Head(paths)] \o Cat(Tail(paths))

RECURSIVE SumLen(_)
SumLen(paths) == IF paths = <<>> THEN 0 ELSE Len(disk[Head(paths)]) + SumLen(Tail(paths))

\* The number a fragment's name spells in decimal.
DigitValue(c) == CHOOSE d \in 0..9 : Digit(d) = c
RECURSIVE ParseDecimal(_)
ParseDecimal(name) ==
    IF name = <<>> THEN 0
    ELSE 10 * ParseDecimal(SubSeq(name, 1, Len(name) - 1)) + DigitValue(Last(name))

\* ceil(filesize / MAX_SPLIT_SIZE), exactly.
ExactNumFragments(filesize) == CeilDiv(filesize, MAX_SPLIT_SIZE)

\* C1. Round trip: once split_file has returned, the fragments it wrote,
\* concatenated by ascending index, are the input file byte for byte.
C1_RoundTrip ==
    \A j \in Jobs :
        st[j].pc = "returned" =>
            /\ Range(FragmentPaths(j)) = Range(st[j].opened)
            /\ Cat(FragmentPaths(j)) = disk[st[j].filepath]

\* C2. Size cap: at every point of the copy the bytes written to the current
\* fragment are at most MAX_SPLIT_SIZE, and so is every fragment file the call
\* has written.
C2_SizeCap ==
    \A j \in Jobs :
        /\ st[j].bytes_written <= MAX_SPLIT_SIZE
        /\ \A path \in Range(st[j].opened) : Len(disk[path]) <= MAX_SPLIT_SIZE

\* C3. Exact sizes: after split_file has returned on a file of filesize > 0,
\* every fragment but the last holds exactly MAX_SPLIT_SIZE bytes and the last,
\* of index numFragments - 1, holds filesize - (numFragments - 1) * MAX_SPLIT_SIZE
\* bytes, a number in (0, MAX_SPLIT_SIZE].
C3_ExactSizes ==
    \A j \in Jobs :
        (st[j].pc = "returned" /\ st[j].filesize > 0) =>
            LET n == ExactNumFragments(st[j].filesize)
                size(i) == IF i < n - 1 THEN MAX_SPLIT_SIZE
                           ELSE st[j].filesize - (n - 1) * MAX_SPLIT_SIZE
            IN /\ Len(st[j].opened) = n
               /\ \A i \in 0..(n - 1) :
                    LET path == SplitPath(st[j].split_dir, i)
                    IN /\ path \in DOMAIN disk
                       /\ Len(disk[path]) = size(i)
                       /\ size(i) > 0 /\ size(i) <= MAX_SPLIT_SIZE

\* C4. Fragment count: split_file creates exactly ceil(filesize / MAX_SPLIT_SIZE)
\* fragment files, the ceiling taken exactly, named 0 .. numFragments - 1 in
\* decimal with at least two digits; none when filesize is 0.
C4_FragmentCount ==
    \A j \in Jobs :
        st[j].pc = "returned" =>
            /\ st[j].num_splits = ExactNumFragments(st[j].filesize)
            /\ Len(st[j].opened) = ExactNumFragments(st[j].filesize)
            /\ \A i \in 1..Len(st[j].opened) :
                 /\ dirname(st[j].opened[i]) = st[j].split_dir
                 /\ Len(basename(st[j].opened[i])) >= 2
                 /\ ParseDecimal(basename(st[j].opened[i])) = i - 1

\* C5. Progress accounting: one report per fragment, made when the fragment's
\* file is closed and before the next is opened, numbered 1 .. numFragments in
\* order, the cumulative bytes never decreasing; the last report's cumulative
\* bytes are filesize, and the sum of the fragments' sizes.
C5_ProgressAccounting ==
    \A j \in Jobs :
        LET r == st[j].reports
        IN /\ st[j].closed_at_report
           /\ Len(r) <= Len(st[j].opened)
           /\ st[j].pc \in {"for", "returned"} => Len(r) = Len(st[j].opened)
           /\ \A i \in 1..Len(r) :
                /\ r[i].split = i
                /\ i > 1 => r[i - 1].total_bytes_written <= r[i].total_bytes_written
           /\ (st[j].pc = "returned" /\ st[j].filesize > 0) =>
                /\ Len(r) = ExactNumFragments(st[j].filesize)
                /\ r[Len(r)].total_bytes_written = st[j].filesize
                /\ r[Len(r)].total_bytes_written = SumLen(st[j].opened)

\* C6. Zero-size input: with filesize 0 the call makes the split directory,
\* opens no fragment file, never reaches the progress division (so never fails
\* with a division by zero), and on return hands back the split directory,
\* having written no file.
C6_ZeroSize ==
    \A j \in Jobs :
        (st[j].pc # "idle" /\ st[j].filesize = 0) =>
            /\ st[j].exc # "ZeroDivisionError"
            /\ st[j].pc \notin {"while", "report"}
            /\ st[j].opened = <<>> /\ st[j].reports = <<>>
            /\ st[j].pc = "for" => ENABLED Return(j)
            /\ st[j].pc = "returned" =>
                 /\ st[j].retval = SplitDir(st[j].filepath)
                 /\ st[j].retval \in dirs
                 /\ disk = prev

C6_Witness ==
    \E j \in Jobs :
        /\ st[j].pc = "returned" /\ st[j].filesize = 0 /\ st[j].calls = 1
        /\ SplitPath(st[j].retval, 0) \in DOMAIN disk

\* C7. Abort on failure: once a failure during fragment k has been raised, it
\* is handed to the caller and nothing is retried; no fragment beyond k has been
\* opened, no report was made for fragment k or later, and every fragment the
\* call wrote, the partial one included, is on disk with the bytes written to it.
C7_AbortOnFailure ==
    \A j \in Jobs :
        st[j].pc = "raised" =>
            /\ st[j].exc # "" /\ st[j].retval = <<>>
            /\ ~ENABLED (Step(j) \/ Fault(j) \/ CallAgain(j))
            /\ Len(st[j].opened) <= st[j].split + 1
            /\ \A i \in 1..Len(st[j].opened) : ParseDecimal(basename(st[j].opened[i])) <= st[j].split
            /\ \A i \in 1..Len(st[j].reports) : st[j].reports[i].split <= st[j].split
            /\ Range(st[j].opened) \subseteq DOMAIN disk
            /\ Cat(st[j].opened)
                 = SubSeq(disk[st[j].filepath], 1, st[j].total_bytes_written)

C7_Witness ==
    \E j \in Jobs :
        /\ st[j].pc = "raised" /\ st[j].exc = "OSError"
        /\ st[j].split >= 1 /\ st[j].bytes_written > 0
        /\ st[j].bytes_written < MAX_SPLIT_SIZE
        /\ Len(disk[st[j].split_path]) = st[j].bytes_written

\* C8. Idempotent re-run: a call on an input whose split directory exists is
\* not stopped by it; the fragments it opens start empty, so on return they hold
\* only what this call wrote, and after a second call on the unchanged input the
\* disk is as the first call left it.
C8_IdempotentRerun ==
    \A j \in Jobs :
        /\ st[j].pc = "start" => ENABLED Start(j)
        /\ st[j].pc = "returned" =>
             /\ Cat(st[j].opened)
                  = SubSeq(disk[st[j].filepath], 1, st[j].total_bytes_written)
             /\ st[j].calls > 1 => disk = prev

C8_Witness ==
    \E j \in Jobs :
        /\ st[j].pc = "returned" /\ st[j].calls = 2
        /\ Len(st[j].opened) >= 2
        /\ disk = prev

\* C9. Parallel independence: two calls on different input files have
\* different split directories, open no fragment file in common, and each
\* leaves exactly the fragments it leaves when run alone.
C9_ParallelIndependence ==
    \A j, k \in Jobs :
        (j # k /\ st[j].filepath # st[k].filepath
              /\ st[j].pc = "returned" /\ st[k].pc = "returned") =>
            /\ st[j].split_dir # st[k].split_dir
            /\ Range(st[j].opened) \cap Range(st[k].opened) = {}
            /\ Cat(FragmentPaths(j)) = Data(j, st[j].filesize)

\* C10. Handle release: the input is opened at most once, and exactly once by
\* a call that returns; at most one fragment handle is open at a time, and only
\* while the input is open; after a return or a failure no handle is open.
C10_HandleRelease ==
    \A j \in Jobs :
        /\ st[j].infile_opens <= 1
        /\ Cardinality(st[j].outfiles) <= 1
        /\ st[j].outfiles # {} => st[j].infile_open
        /\ st[j].infile_open => st[j].infile_opens = 1
        /\ st[j].pc = "returned" => st[j].infile_opens = 1
        /\ st[j].pc \in {"returned", "raised"} =>
             ~st[j].infile_open /\ st[j].outfiles = {}

C10_Witness ==
    \E j \in Jobs :
        /\ st[j].pc = "raised" /\ st[j].infile_opens = 1
        /\ Len(st[j].opened) >= 2
        /\ st[j].split_path = SplitPath(st[j].split_dir, Len(st[j].opened))

====
